---------------------------- MODULE Spec2Model ----------------------------
(***************************************************************************)
(* Capacity-dimensioning core of the fronthaul link optimizer:             *)
(*   - the buffer-aware minimum-capacity solver (binary search driven by   *)
(*     a finite-queue simulation), in its two implementations              *)
(*     app.calculate_capacity_with_buffer and                              *)
(*     link_capacity_estimation.find_required_capacity_with_buffer;        *)
(*   - the tier recommender, the cost lookups and the SLA scorer;          *)
(*   - the traffic-series builder and the randomized topology optimizer.   *)
(*                                                                         *)
(* Arithmetic.  The Python code computes in binary floating point; the     *)
(* model computes the same expressions in exact rational arithmetic, each  *)
(* rational stored as an integer numerator over a denominator that is      *)
(* fixed for the run:                                                      *)
(*   - Gbps values of a solver run (low, high, c, best_c) are numerators   *)
(*     over Den(S) = len(S) * 2^15, which makes mean(S) and the fifteen    *)
(*     midpoints exact;                                                    *)
(*   - durations are in tenths of a microsecond;                           *)
(*   - bit quantities of a solver run are multiples of the quantum         *)
(*     GBPS_SCALE * 1e-7 s * g / Den(S), g = gcd(slot, buffer time).       *)
(***************************************************************************)
EXTENDS Integers, Sequences, FiniteSets, TLC

VARIABLES
    \* ---- solver run (calculate_capacity_with_buffer / find_required_...)
    impl,            \* "app" | "lce" | "none": which implementation runs
    traffic_gbps,    \* the per-slot Gbps series (integers, Gbps)
    buffer_time,     \* buffer duration, tenths of a microsecond
    max_loss_pct,    \* tolerated loss, percent of slots
    low, high,       \* search interval, numerators over Den(traffic_gbps)
    best_c,          \* last feasible midpoint (initially high)
    iter,            \* number of completed binary-search iterations
    returned,        \* the capacities returned by the calls made so far
    pc,              \* control position of the operation being run
    \* ---- recommend_link_speed and the per-link cost lookup (app.py)
    required_gbps,   \* required capacity, tenths of a Gbps
    peak_gbps,       \* <<>> for None, <<p>> for a peak of p tenths of a Gbps
    speed,           \* returned tier, tenths of a Gbps (0 before the call)
    link_costs,      \* caller's cost table: <<>> for None, <<dict>> otherwise
    cost,            \* result of the cost lookup (0 before the lookup)
    \* ---- calculate_sla_score
    capacity_gbps,   \* capacity as a rational [num, den], Gbps
    compliance,      \* score as a rational [num, den], percent
    \* ---- per-link loops of the recommendations and summary tabs (app.main)
    main_links,      \* main's links: the sorted list of link ids
    link_gbps,       \* link id -> the 'gbps' values of its rows (Gbps)
    main_buffer_symbols, \* main's buffer_symbols (sidebar setting)
    main_max_loss,   \* main's max_loss (sidebar setting), percent
    main_peak,       \* main's local variable peak (Gbps)
    report_data,     \* rows appended by the recommendations loop
    summary_data,    \* rows appended by the link-by-link summary loop
    \* ---- calculate_topology_cost / optimize_topology (topology_optimizer)
    df,              \* caller's sample table: [columns, rows]
    mapping,         \* cell -> link dict given to calculate_topology_cost
    link_traffic,    \* groupby result: <<link, slot>> -> summed bits
    total_cost,      \* total_cost of the last calculate_topology_cost
    link_details,    \* link_details of the last calculate_topology_cost
    link_series,     \* per link, the rows of its aggregated series in order
    num_links,       \* optimize_topology argument
    iterations,      \* optimize_topology argument
    unique_cells,    \* working source list, shuffled in place
    best_mapping, best_cost, best_details,
    loop_i,          \* optimize_topology's i: candidates evaluated so far
    raised           \* "" or the name of the exception that ended the call

solverVars == <<impl, traffic_gbps, buffer_time, max_loss_pct, low, high,
                best_c, iter, returned>>
tierVars == <<required_gbps, peak_gbps, speed, link_costs, cost>>
tabVars == <<main_links, link_gbps, main_buffer_symbols, main_max_loss, main_peak,
             report_data, summary_data>>
slaVars == <<capacity_gbps, compliance, tabVars>>

costVars == <<mapping, link_traffic, total_cost, link_details, link_series>>
optVars == <<num_links, iterations, unique_cells, best_mapping, best_cost,
             best_details, loop_i>>
topoVars == <<df, costVars, optVars, raised>>

vars == <<solverVars, tierVars, slaVars, topoVars, pc>>

----------------------------------------------------------------------------
(* Bounds of the model *)

MaxLen == 3        \* longest series drawn
MaxGbps == 2       \* largest per-slot value drawn (Gbps)
MaxBufK == 2       \* buffer sizes drawn: 0, 5, .., 5 * MaxBufK symbols
MaxLossK == 5      \* loss targets drawn: 0, 20, .., 20 * MaxLossK percent
MaxDelta == 1      \* tier inputs drawn within MaxDelta tenths of a threshold
MaxRows == 2       \* most rows of a sample table given to the cost function
MaxLinks == 3      \* largest num_links given to the optimizer
MaxIter == 2       \* largest iterations given to the optimizer
MaxCalls == 2      \* most calls of the solver on the same arguments
MaxTabLinks == 2   \* most links shown by the per-link tabs

----------------------------------------------------------------------------
(* Program constants *)

SLOT_DURATION_SEC == 5000     \* 0.0005 s, in tenths of a microsecond
SYMBOL_DURATION_SEC == 357    \* 35.7e-6 s, in tenths of a microsecond
BUFFER_TIME_SEC == 1430       \* 143e-6 s, in tenths of a microsecond
SEARCH_ITERS == 15            \* for _ in range(15)

----------------------------------------------------------------------------
(* Helpers of the exact arithmetic *)

RECURSIVE Pow2(_)
Pow2(n) == IF n = 0 THEN 1 ELSE 2 * Pow2(n - 1)

RECURSIVE GCD(_, _)
GCD(a, b) == IF b = 0 THEN a ELSE GCD(b, a % b)

RECURSIVE SeqSum(_)
SeqSum(s) == IF s = <<>> THEN 0 ELSE Head(s) + SeqSum(Tail(s))

RECURSIVE SeqMax(_)
SeqMax(s) == IF Len(s) = 1 THEN s[1]
             ELSE LET m == SeqMax(Tail(s)) IN IF s[1] > m THEN s[1] ELSE m

\* Common denominator of the Gbps values of a run over series s.
Den(s) == Len(s) * Pow2(SEARCH_ITERS)

\* np.mean(traffic_gbps) and np.max(traffic_gbps), as numerators over Den(s).
NpMean(s) == SeqSum(s) * Pow2(SEARCH_ITERS)
NpMax(s) == SeqMax(s) * Den(s)

\* The two duration factors reduced by their gcd: slot/g and buffer/g.
SlotFactor(bt, sd) == sd \div GCD(sd, bt)
BufFactor(bt, sd) == bt \div GCD(sd, bt)

----------------------------------------------------------------------------
(* Queue simulation *)

\* traffic_bits = traffic_gbps * GBPS_SCALE * slot_duration
TrafficBits(s, bt, sd) == [i \in 1..Len(s) |-> s[i] * Den(s) * SlotFactor(bt, sd)]

\* capacity_bits_per_slot = c * GBPS_SCALE * slot_duration
CapacityBitsPerSlot(c, bt, sd) == c * SlotFactor(bt, sd)

\* max_buffer_bits = buffer_time * (c * GBPS_SCALE)
MaxBufferBits(c, bt, sd) == c * BufFactor(bt, sd)

\* Mutant of MaxAllowedLoss: the percentage is read as the share of slots
\* that must survive.
MaxAllowedLossInverted(total_slots, pct) ==
    (total_slots * (100 - pct)) \div 100

\* int(total_slots * (max_loss_pct / 100.0))
MaxAllowedLoss(total_slots, pct) == (total_slots * pct) \div 100

\* Mutant of QueueSlot: the overflow test is written the wrong way round
\* (current_buffer < max_buffer_bits).
QueueSlotFlipped(q, bits, cap, maxbuf) ==
    LET added == q.buf + bits
        drained == IF added > cap THEN added - cap ELSE 0
    IN  IF drained < maxbuf
        THEN [buf |-> maxbuf, loss |-> q.loss + 1]
        ELSE [buf |-> drained, loss |-> q.loss]

\* Mutant of QueueSlot: an overflowing slot is counted but the buffer is not
\* cut back to max_buffer_bits.
QueueSlotNoTailDrop(q, bits, cap, maxbuf) ==
    LET added == q.buf + bits
        drained == IF added > cap THEN added - cap ELSE 0
    IN  IF drained > maxbuf
        THEN [buf |-> drained, loss |-> q.loss + 1]
        ELSE [buf |-> drained, loss |-> q.loss]

\* One slot of the queue: add, drain, tail-drop.  q = [buf, loss].
QueueSlot(q, bits, cap, maxbuf) ==
    LET added == q.buf + bits
        drained == IF added > cap THEN added - cap ELSE 0
    IN  IF drained > maxbuf
        THEN [buf |-> maxbuf, loss |-> q.loss + 1]
        ELSE [buf |-> drained, loss |-> q.loss]

\* The whole slot loop of app.calculate_capacity_with_buffer, from slot i on.
RECURSIVE RunQueue(_, _, _, _, _)
RunQueue(q, tb, i, cap, maxbuf) ==
    IF i > Len(tb) THEN q
    ELSE RunQueue(QueueSlot(q, tb[i], cap, maxbuf), tb, i + 1, cap, maxbuf)

\* Mutant of RunQueueBreak: the loop breaks at the first lost slot, whatever
\* the allowance.
RECURSIVE RunQueueBreakOnAnyLoss(_, _, _, _, _, _)
RunQueueBreakOnAnyLoss(q, tb, i, cap, maxbuf, allowed) ==
    IF i > Len(tb) THEN q
    ELSE LET q2 == QueueSlot(q, tb[i], cap, maxbuf)
         IN  IF q2.loss > 0 THEN q2
             ELSE RunQueueBreakOnAnyLoss(q2, tb, i + 1, cap, maxbuf, allowed)

\* The slot loop of find_required_capacity_with_buffer: it breaks as soon as
\* loss_slots exceeds the allowance.
RECURSIVE RunQueueBreak(_, _, _, _, _, _)
RunQueueBreak(q, tb, i, cap, maxbuf, allowed) ==
    IF i > Len(tb) THEN q
    ELSE LET q2 == QueueSlot(q, tb[i], cap, maxbuf)
         IN  IF q2.loss > allowed THEN q2
             ELSE RunQueueBreak(q2, tb, i + 1, cap, maxbuf, allowed)

\* loss counted by the app simulation at capacity c
SimLoss(s, bt, sd, c) ==
    RunQueue([buf |-> 0, loss |-> 0], TrafficBits(s, bt, sd), 1,
             CapacityBitsPerSlot(c, bt, sd), MaxBufferBits(c, bt, sd)).loss

\* loss_slots counted by the lce simulation at capacity c
SimLossBreak(s, bt, sd, c, allowed) ==
    RunQueueBreak([buf |-> 0, loss |-> 0], TrafficBits(s, bt, sd), 1,
                  CapacityBitsPerSlot(c, bt, sd), MaxBufferBits(c, bt, sd),
                  allowed).loss

----------------------------------------------------------------------------
(* Binary search *)

\* Mutant of SearchInit: the search starts from 0 instead of the mean.
SearchInitFromZero(s) == [low |-> 0, high |-> NpMax(s), best_c |-> NpMax(s)]

\* low, high = mean, max; best_c = high
SearchInit(s) == [low |-> NpMean(s), high |-> NpMax(s), best_c |-> NpMax(s)]

\* Mutant of Midpoint: the midpoint drifts with the number of earlier calls.
MidpointDrifts(st) == (st.low + st.high) \div 2 + Len(returned)

\* c = (low + high) / 2
Midpoint(st) == (st.low + st.high) \div 2

\* Mutant of Bisect: best_c is recorded at every midpoint, feasible or not.
BisectRecordsAll(st, c, loss, allowed) ==
    IF loss <= allowed
    THEN [low |-> st.low, high |-> c, best_c |-> c]
    ELSE [low |-> c, high |-> st.high, best_c |-> c]

\* if loss <= max_allowed_loss: best_c = c; high = c  else: low = c
Bisect(st, c, loss, allowed) ==
    IF loss <= allowed
    THEN [low |-> st.low, high |-> c, best_c |-> c]
    ELSE [low |-> c, high |-> st.high, best_c |-> st.best_c]

\* One iteration of the loop of app.calculate_capacity_with_buffer.
AppIteration(st, s, bt, pct) ==
    LET c == Midpoint(st)
    IN  Bisect(st, c, SimLoss(s, bt, SLOT_DURATION_SEC, c),
               MaxAllowedLoss(Len(s), pct))

\* One iteration of the loop of find_required_capacity_with_buffer.
LceIteration(st, s, bt, sd, pct) ==
    LET c == Midpoint(st)
        allowed == MaxAllowedLoss(Len(s), pct)
    IN  Bisect(st, c, SimLossBreak(s, bt, sd, c, allowed), allowed)

\* k iterations of the loop from search state st.  (The singleton set binds
\* the state after one iteration to a value before the loop goes on.)
RECURSIVE AppSearch(_, _, _, _, _)
AppSearch(st, k, s, bt, pct) ==
    IF k = 0 THEN st
    ELSE CHOOSE r \in {AppSearch(st2, k - 1, s, bt, pct) :
                           st2 \in {AppIteration(st, s, bt, pct)}} : TRUE

\* buffer_time_sec = buffer_symbols * SYMBOL_DURATION_SEC
BufferTimeSec(buffer_symbols) == buffer_symbols * SYMBOL_DURATION_SEC

\* calculate_capacity_with_buffer(traffic_gbps, buffer_symbols, max_loss_pct)
calculate_capacity_with_buffer(s, buffer_symbols, pct) ==
    AppSearch(SearchInit(s), SEARCH_ITERS, s, BufferTimeSec(buffer_symbols),
              pct).best_c

----------------------------------------------------------------------------
(* Inputs drawn *)

SeriesOfLen(n) == [1..n -> 0..MaxGbps]
SeriesSet == UNION {SeriesOfLen(n) : n \in 1..MaxLen}
BufferSymbolsSet == {5 * k : k \in 0..MaxBufK}
LossSet == {20 * k : k \in 0..MaxLossK}

\* The scenario of the specification: S = [1,1,1,1,10], buffer 0, loss 20%.
ScenarioSeries == <<1, 1, 1, 1, 10>>

----------------------------------------------------------------------------
(* Solver run as a state machine *)

IdleSolver ==
    /\ impl = "none" /\ traffic_gbps = <<>> /\ buffer_time = 0
    /\ max_loss_pct = 0 /\ low = 0 /\ high = 0 /\ best_c = 0 /\ iter = 0
    /\ returned = <<>>

IdleTier ==
    /\ required_gbps = 0 /\ peak_gbps = <<>> /\ speed = 0
    /\ link_costs = <<>> /\ cost = 0

NoRational == [num |-> 0, den |-> 1]
IdleTabs ==
    /\ main_links = <<>> /\ link_gbps = <<>> /\ main_buffer_symbols = 0
    /\ main_max_loss = 0 /\ main_peak = 0
    /\ report_data = <<>> /\ summary_data = <<>>

IdleSla == capacity_gbps = NoRational /\ compliance = NoRational /\ IdleTabs

\* float('inf')
INF == <<>>

EmptyDf == [columns |-> {}, rows |-> <<>>]
EmptyDict == <<>>

IdleCost ==
    /\ mapping = EmptyDict /\ link_traffic = EmptyDict /\ total_cost = 0
    /\ link_details = EmptyDict /\ link_series = EmptyDict

IdleOpt ==
    /\ num_links = 0 /\ iterations = 0 /\ unique_cells = <<>>
    /\ best_mapping = EmptyDict /\ best_cost = INF
    /\ best_details = EmptyDict /\ loop_i = 0

IdleTopo == df = EmptyDf /\ IdleCost /\ IdleOpt /\ raised = ""

SolverStart(im, s, bt, pct) ==
    /\ IdleTier /\ IdleSla /\ IdleTopo
    /\ impl = im
    /\ traffic_gbps = s
    /\ buffer_time = bt
    /\ max_loss_pct = pct
    /\ low = SearchInit(s).low
    /\ high = SearchInit(s).high
    /\ best_c = SearchInit(s).best_c
    /\ iter = 0
    /\ returned = <<>>
    /\ pc = "search"

InitSolver ==
    \/ \E s \in SeriesSet, b \in BufferSymbolsSet, pct \in LossSet :
          SolverStart("app", s, BufferTimeSec(b), pct)
    \/ \E s \in SeriesSet, pct \in LossSet :
          SolverStart("lce", s, BUFFER_TIME_SEC, pct)
    \/ SolverStart("app", ScenarioSeries, BufferTimeSec(0), 20)

SearchState == [low |-> low, high |-> high, best_c |-> best_c]

ApplySearch(st) ==
    /\ low' = st.low
    /\ high' = st.high
    /\ best_c' = st.best_c
    /\ iter' = iter + 1
    /\ UNCHANGED <<impl, traffic_gbps, buffer_time, max_loss_pct, returned, pc>>
    /\ UNCHANGED <<tierVars, slaVars, topoVars>>

AppIterate ==
    /\ pc = "search" /\ impl = "app" /\ iter < SEARCH_ITERS
    /\ \E st \in {AppIteration(SearchState, traffic_gbps, buffer_time,
                                 max_loss_pct)} : ApplySearch(st)

LceIterate ==
    /\ pc = "search" /\ impl = "lce" /\ iter < SEARCH_ITERS
    /\ \E st \in {LceIteration(SearchState, traffic_gbps, buffer_time,
                                 SLOT_DURATION_SEC, max_loss_pct)} :
           ApplySearch(st)

\* return best_c
SolverReturn ==
    /\ pc = "search" /\ iter = SEARCH_ITERS
    /\ returned' = Append(returned, best_c)
    /\ pc' = "done"
    /\ UNCHANGED <<impl, traffic_gbps, buffer_time, max_loss_pct, low, high,
                   best_c, iter>>
    /\ UNCHANGED <<tierVars, slaVars, topoVars>>

\* Another call with the same arguments: the locals are initialised anew.
SolverCallAgain ==
    /\ pc = "done" /\ Len(returned) < MaxCalls
    /\ low' = SearchInit(traffic_gbps).low
    /\ high' = SearchInit(traffic_gbps).high
    /\ best_c' = SearchInit(traffic_gbps).best_c
    /\ iter' = 0
    /\ pc' = "search"
    /\ UNCHANGED <<impl, traffic_gbps, buffer_time, max_loss_pct, returned>>
    /\ UNCHANGED <<tierVars, slaVars, topoVars>>

NextSolver == AppIterate \/ LceIterate \/ SolverReturn

\* The solver called up to MaxCalls times on the same arguments.
NextCalls == NextSolver \/ SolverCallAgain

SpecCalls == InitSolver /\ [][NextCalls]_vars

SpecSolver == InitSolver /\ [][NextSolver]_vars

----------------------------------------------------------------------------
(* Claims about the solver, checked under SpecSolver *)

Done == pc = "done"
Allowed == MaxAllowedLoss(Len(traffic_gbps), max_loss_pct)

\* Loss counted when the full queue simulation is re-run at capacity c on
\* the inputs of the current run.
ReSimulate(c) == SimLoss(traffic_gbps, buffer_time, SLOT_DURATION_SEC, c)

\* C1: the capacity returned by either solver is feasible: re-running the
\* queue simulation at it loses at most floor(len(S) * L / 100) slots; when
\* max(S) is returned the re-simulation loses no slot at all.
C1_ReturnedCapacityFeasible ==
    Done => /\ ReSimulate(best_c) <= Allowed
            /\ (best_c = NpMax(traffic_gbps) => ReSimulate(best_c) = 0)

\* C1 witness: a finished run on a non-constant series in which no midpoint
\* was accepted, so that max(S) is returned.
C1_Witness ==
    /\ Done
    /\ best_c = NpMax(traffic_gbps)
    /\ NpMean(traffic_gbps) < NpMax(traffic_gbps)
    /\ low > NpMean(traffic_gbps)

\* C2: for the series and loss target of a finished run, every buffer size
\* at least as large as the run's yields a capacity that is not larger.
\* (Checked on the drawn series; the scenario series is run with buffer 0.)
C2_BufferMonotone ==
    (Done /\ impl = "app" /\ traffic_gbps \in SeriesSet) =>
        \A b2 \in BufferSymbolsSet :
            BufferTimeSec(b2) >= buffer_time =>
                calculate_capacity_with_buffer(traffic_gbps, b2, max_loss_pct)
                    <= best_c

\* C2 witness: a finished run for which a larger buffer gives a strictly
\* smaller capacity.
C2_Witness ==
    /\ Done /\ impl = "app" /\ traffic_gbps \in SeriesSet
    /\ \E b2 \in BufferSymbolsSet :
          /\ BufferTimeSec(b2) > buffer_time
          /\ calculate_capacity_with_buffer(traffic_gbps, b2, max_loss_pct)
                < best_c

\* The buffer size, in symbols, of the current app run.
RunSymbols == CHOOSE b \in 0..(5 * (MaxBufK + 1)) : BufferTimeSec(b) = buffer_time

\* C3: for the series and buffer of a finished run, every loss target at
\* least as large as the run's yields a capacity that is not larger.
C3_LossTargetMonotone ==
    (Done /\ impl = "app") =>
        \A l2 \in LossSet :
            l2 >= max_loss_pct =>
                calculate_capacity_with_buffer(traffic_gbps, RunSymbols, l2)
                    <= best_c

\* C3 witness: a finished run for which a larger loss target gives a
\* strictly smaller capacity.
C3_Witness ==
    /\ Done /\ impl = "app"
    /\ \E l2 \in LossSet :
          /\ l2 > max_loss_pct
          /\ calculate_capacity_with_buffer(traffic_gbps, RunSymbols, l2)
                < best_c

ScenarioDone ==
    /\ Done /\ impl = "app"
    /\ traffic_gbps = ScenarioSeries /\ buffer_time = 0 /\ max_loss_pct = 20

\* C8: on S = [1,1,1,1,10], buffer 0, loss target 20% the solver returns a
\* capacity other than max(S), within half a Gbps of the non-peak level of
\* 1 Gbps, at which the re-simulation loses exactly one slot.
C8_ScenarioNearNonPeak ==
    ScenarioDone =>
        /\ best_c # NpMax(traffic_gbps)
        /\ ReSimulate(best_c) = 1
        /\ 2 * best_c >= 1 * Den(traffic_gbps)
        /\ 2 * best_c <= 3 * Den(traffic_gbps)

\* What the code returns on the scenario: mean(S) plus one search step,
\* 2.8 + 7.2 / 2^15 Gbps, where one slot is lost.
C8_CodeReturnsMeanPlusStep ==
    ScenarioDone =>
        /\ best_c = NpMean(traffic_gbps)
                    + (NpMax(traffic_gbps) - NpMean(traffic_gbps))
                      \div Pow2(SEARCH_ITERS)
        /\ ReSimulate(best_c) = 1

----------------------------------------------------------------------------
(* Tier recommender and per-link cost lookup of app.py.  Gbps values are   *)
(* in tenths of a Gbps, so that 2.5 Gbps and speed * 0.8 are integers.     *)

\* LINK_SPEEDS = [1, 2.5, 5, 10, 25, 40, 50, 100, 400]
LINK_SPEEDS == <<10, 25, 50, 100, 250, 400, 500, 1000, 4000>>

\* return 400  # Fallback
FALLBACK_SPEED == 4000

\* LINK_COSTS, which is also the default content of custom_link_costs
LINK_COSTS ==
    (10 :> 45000) @@ (25 :> 85000) @@ (50 :> 125000) @@ (100 :> 170000)
    @@ (250 :> 680000) @@ (400 :> 1275000) @@ (500 :> 1500000)
    @@ (1000 :> 2975000) @@ (4000 :> 8500000)

\* cost_25g, the default of the opt_cost lookup
COST_25G == 680000

\* capacity_ok = required_gbps <= speed * 0.8
CapacityOk(required, s) == 10 * required <= 8 * s

\* peak_ok: False exactly when a peak is given and peak_gbps > speed * 1.0
PeakOk(peak, s) == IF peak # <<>> /\ peak[1] > s THEN FALSE ELSE TRUE

\* Mutant of ScanSpeeds: the peak constraint is not enforced.
ScanSpeedsNoPeak(speeds, i, required, peak) ==
    LET Fits == {j \in i..Len(speeds) : CapacityOk(required, speeds[j])}
    IN  IF Fits = {} THEN FALLBACK_SPEED
        ELSE speeds[CHOOSE j \in Fits : \A k \in Fits : j <= k]

\* Mutant of ScanSpeeds: when no tier fits, the first tier is returned.
ScanSpeedsFallbackFirst(speeds, i, required, peak) ==
    LET Fits == {j \in i..Len(speeds) :
                    CapacityOk(required, speeds[j]) /\ PeakOk(peak, speeds[j])}
    IN  IF Fits = {} THEN speeds[1]
        ELSE speeds[CHOOSE j \in Fits : \A k \in Fits : j <= k]

\* for speed in LINK_SPEEDS: ... return speed;  return 400
RECURSIVE ScanSpeeds(_, _, _, _)
ScanSpeeds(speeds, i, required, peak) ==
    IF i > Len(speeds) THEN FALLBACK_SPEED
    ELSE IF CapacityOk(required, speeds[i]) /\ PeakOk(peak, speeds[i])
         THEN speeds[i]
         ELSE ScanSpeeds(speeds, i + 1, required, peak)

\* Mutant of recommend_link_speed: the scan runs from the largest tier down.
RecommendFromTop(required, peak) ==
    LET Fits == {j \in 1..Len(LINK_SPEEDS) :
                    CapacityOk(required, LINK_SPEEDS[j])
                    /\ PeakOk(peak, LINK_SPEEDS[j])}
    IN  IF Fits = {} THEN FALLBACK_SPEED
        ELSE LINK_SPEEDS[CHOOSE j \in Fits : \A k \in Fits : j >= k]

\* recommend_link_speed(required_gbps, peak_gbps=None)
recommend_link_speed(required, peak) == ScanSpeeds(LINK_SPEEDS, 1, required, peak)

\* dict.get(key, default)
DictGet(d, key, default) == IF key \in DOMAIN d THEN d[key] ELSE default

SeqRange(s) == {s[i] : i \in 1..Len(s)}

\* Inputs: values within MaxDelta of every headroom threshold and of every
\* tier speed, plus 0 and the two values of the specification's scenario.
NearSet(xs) == {x + d : x \in xs, d \in (0 - MaxDelta)..MaxDelta} \cap Nat
RequiredSet ==
    {0, 5} \cup NearSet({(8 * s) \div 10 : s \in SeqRange(LINK_SPEEDS)})
PeakSet ==
    {<<>>} \cup {<<p>> : p \in {0, 90} \cup NearSet(SeqRange(LINK_SPEEDS))}

\* Cost tables a caller may hold: the full table and the table without one
\* of its tiers.
Restrict(d, keys) == [k \in keys |-> d[k]]
CostTableSet ==
    {LINK_COSTS} \cup {Restrict(LINK_COSTS, DOMAIN LINK_COSTS \ {k}) :
                         k \in DOMAIN LINK_COSTS}

InitTier ==
    /\ IdleSolver /\ IdleSla /\ IdleTopo
    /\ required_gbps \in RequiredSet
    /\ peak_gbps \in PeakSet
    /\ link_costs \in {<<d>> : d \in CostTableSet}
    /\ speed = 0
    /\ cost = 0
    /\ pc = "recommend"

\* recommended_speed = recommend_link_speed(optimized, peak_gbps=peak)
Recommend ==
    /\ pc = "recommend"
    /\ speed' = recommend_link_speed(required_gbps, peak_gbps)
    /\ pc' = "lookup"
    /\ UNCHANGED <<solverVars, slaVars, topoVars, required_gbps, peak_gbps,
                   link_costs, cost>>

\* opt_cost = custom_link_costs.get(recommended_speed, cost_25g)
LookupCost ==
    /\ pc = "lookup"
    /\ cost' = DictGet(link_costs[1], speed, COST_25G)
    /\ pc' = "costed"
    /\ UNCHANGED <<solverVars, slaVars, topoVars, required_gbps, peak_gbps,
                   link_costs, speed>>

NextTier == Recommend \/ LookupCost

SpecTier == InitTier /\ [][NextTier]_vars

----------------------------------------------------------------------------
(* Claims about the tier recommender, checked under SpecTier *)

Recommended == pc \in {"lookup", "costed"}

\* The tiers that satisfy both constraints for the inputs of the run.
FittingTiers ==
    {s \in SeqRange(LINK_SPEEDS) :
        /\ 10 * required_gbps <= 8 * s
        /\ (peak_gbps = <<>> \/ s >= peak_gbps[1])}

\* C4: the tier list is strictly increasing; the recommender returns the
\* smallest tier that meets the 80% headroom and, when a peak is given, the
\* peak ceiling, and the largest tier when none does; the result is always
\* a tier of the list; (0.5, None) gives 1 and (0.5, 9) gives 10.
C4_FirstFittingTierOrLargest ==
    /\ \A i, j \in 1..Len(LINK_SPEEDS) : i < j => LINK_SPEEDS[i] < LINK_SPEEDS[j]
    /\ Recommended =>
        /\ speed \in SeqRange(LINK_SPEEDS)
        /\ FittingTiers # {} =>
              speed \in FittingTiers /\ \A s \in FittingTiers : speed <= s
        /\ FittingTiers = {} => \A s \in SeqRange(LINK_SPEEDS) : speed >= s
        /\ (required_gbps = 5 /\ peak_gbps = <<>>) => speed = 10
        /\ (required_gbps = 5 /\ peak_gbps = <<90>>) => speed = 100

\* C4 witness: the scenario with a peak of 9 Gbps, where the peak ceiling
\* lifts the tier from 1 to 10 Gbps.
C4_Witness ==
    Recommended /\ required_gbps = 5 /\ peak_gbps = <<90>> /\ speed = 100

\* C5 as stated: whenever a peak is supplied the returned tier is at least
\* the peak.
C5_TierNeverBelowPeak ==
    (Recommended /\ peak_gbps # <<>>) => speed >= peak_gbps[1]

\* C5 amended: whenever a peak is supplied that does not exceed the largest
\* tier, the returned tier is at least the peak; a peak above the largest
\* tier gets the fallback tier.
C5_TierNeverBelowPeakUpToLargest ==
    (Recommended /\ peak_gbps # <<>>) =>
        /\ peak_gbps[1] <= FALLBACK_SPEED => speed >= peak_gbps[1]
        /\ peak_gbps[1] > FALLBACK_SPEED => speed = FALLBACK_SPEED

\* C5 witness: the required capacity alone fits the smallest tier, and the
\* supplied peak forces a larger one.
C5_Witness ==
    /\ Recommended /\ peak_gbps # <<>>
    /\ CapacityOk(required_gbps, LINK_SPEEDS[1])
    /\ peak_gbps[1] > LINK_SPEEDS[1]
    /\ peak_gbps[1] <= FALLBACK_SPEED
    /\ speed >= peak_gbps[1]

----------------------------------------------------------------------------
(* SLA scorer *)

\* Mutant of Exceeded: slots equal to the capacity count as exceeding it.
ExceededOrEqual(s, cap) ==
    Cardinality({i \in 1..Len(s) : s[i] * cap.den >= cap.num})

\* exceeded = np.sum(traffic_gbps > capacity_gbps)
RECURSIVE Exceeded(_, _)
Exceeded(s, cap) ==
    IF s = <<>> THEN 0
    ELSE (IF Head(s) * cap.den > cap.num THEN 1 ELSE 0) + Exceeded(Tail(s), cap)

\* compliance = (1 - exceeded / total) * 100, as the rational
\* 100 * (total - exceeded) / total
calculate_sla_score(s, cap) ==
    LET exceeded == Exceeded(s, cap)
        total == Len(s)
    IN  [num |-> (total - exceeded) * 100, den |-> total]

\* Capacities drawn: the halves of a Gbps from 0 to MaxGbps + 1.
CapacitySet == {[num |-> n, den |-> 2] : n \in 0..(2 * MaxGbps + 2)}

InitSla ==
    /\ IdleTier /\ IdleTopo
    /\ impl = "none" /\ buffer_time = 0 /\ max_loss_pct = 0
    /\ low = 0 /\ high = 0 /\ best_c = 0 /\ iter = 0 /\ returned = <<>>
    /\ IdleTabs
    /\ traffic_gbps \in SeriesSet
    /\ capacity_gbps \in CapacitySet
    /\ compliance = NoRational
    /\ pc = "score"

\* sla_score = calculate_sla_score(adjusted_gbps, optimized)
Score ==
    /\ pc = "score"
    /\ compliance' = calculate_sla_score(traffic_gbps, capacity_gbps)
    /\ pc' = "scored"
    /\ UNCHANGED <<solverVars, tierVars, topoVars, capacity_gbps, tabVars>>

NextSla == Score

SpecSla == InitSla /\ [][NextSla]_vars

----------------------------------------------------------------------------
(* Claims about the SLA scorer, checked under SpecSla *)

\* Slots of the series whose Gbps does not exceed the capacity.
WithinCapacity ==
    {i \in 1..Len(traffic_gbps) :
        traffic_gbps[i] * capacity_gbps.den <= capacity_gbps.num}

\* C9: the score is 100 times the fraction of slots that do not exceed the
\* capacity, lies between 0 and 100, and is exactly 100 when the capacity
\* is at least max(S).
C9_SlaScoreIsCompliantFraction ==
    pc = "scored" =>
        /\ compliance.den = Len(traffic_gbps)
        /\ compliance.num = 100 * Cardinality(WithinCapacity)
        /\ 0 <= compliance.num /\ compliance.num <= 100 * compliance.den
        /\ capacity_gbps.num >= SeqMax(traffic_gbps) * capacity_gbps.den
              => compliance.num = 100 * compliance.den

\* C9 witness: a non-constant series scored at a capacity equal to its
\* maximum, which gives 100.
C9_Witness ==
    /\ pc = "scored"
    /\ capacity_gbps.num = SeqMax(traffic_gbps) * capacity_gbps.den
    /\ \E i \in 1..Len(traffic_gbps) : traffic_gbps[i] < SeqMax(traffic_gbps)
    /\ compliance.num = 100 * compliance.den

----------------------------------------------------------------------------
(* Traffic-series builder and calculate_topology_cost.                     *)
(* A sample table is [columns, rows]; a row is [cell_id, time, bits,       *)
(* slot_idx], slot_idx being meaningful only when the column exists.       *)
(* Times are in tenths of a microsecond, bits are bits, a link label       *)
(* f"Link_{n}" is the pair <<"Link", n>>, a dict is a function.            *)

\* LINK_SPEEDS = [1, 10, 25, 40, 100], in tenths of a Gbps
TOPO_LINK_SPEEDS == <<10, 100, 250, 400, 1000>>

\* return 100
TOPO_FALLBACK_SPEED == 1000

\* DEFAULT_LINK_COSTS
DEFAULT_LINK_COSTS ==
    (10 :> 45000) @@ (100 :> 170000) @@ (250 :> 680000) @@ (400 :> 1275000)
    @@ (1000 :> 2975000)

\* slot_duration * gbps_scale / 10: the bits one slot carries at 0.1 Gbps
TENTH_GBPS_SLOT_BITS == 50000

LinkLabel(n) == <<"Link", n>>

\* df['time'].min(); never used on an empty table
RECURSIVE MinTime(_)
MinTime(rows) ==
    IF Len(rows) = 1 THEN rows[1].time
    ELSE LET m == MinTime(Tail(rows))
         IN  IF rows[1].time < m THEN rows[1].time ELSE m

\* ((time - min_time) / slot_duration).astype(int)
SlotIdx(time, min_time, sd) == (time - min_time) \div sd

\* Mutant of AssignSlotIdx: every row is aligned to the first timestamp of
\* its own cell instead of the minimum of the whole table.
AssignSlotIdxPerCell(d) ==
    [columns |-> d.columns \cup {"slot_idx"},
     rows |-> [k \in 1..Len(d.rows) |->
                 [d.rows[k] EXCEPT !.slot_idx =
                     SlotIdx(d.rows[k].time,
                             MinTime(SelectSeq(d.rows,
                                LAMBDA r : r.cell_id = d.rows[k].cell_id)),
                             SLOT_DURATION_SEC)]]]

\* min_time = df['time'].min(); df['slot_idx'] = ((df['time'] - min_time)
\*                                               / slot_duration).astype(int)
AssignSlotIdx(d) ==
    [columns |-> d.columns \cup {"slot_idx"},
     rows |-> [k \in 1..Len(d.rows) |->
                 [d.rows[k] EXCEPT !.slot_idx =
                     SlotIdx(d.rows[k].time, MinTime(d.rows),
                             SLOT_DURATION_SEC)]]]

\* df['cell_id'].map(mapping): <<>> stands for NaN
MapLink(map, cell) == IF cell \in DOMAIN map THEN <<map[cell]>> ELSE <<>>

\* Sum of the bits of the rows of one (link, slot) group.
RECURSIVE GroupSum(_, _, _, _)
GroupSum(rows, map, link, slot) ==
    IF rows = <<>> THEN 0
    ELSE (IF MapLink(map, Head(rows).cell_id) = <<link>>
             /\ Head(rows).slot_idx = slot
          THEN Head(rows).bits ELSE 0)
         + GroupSum(Tail(rows), map, link, slot)

\* The group keys of groupby(['link_id', 'slot_idx']): rows whose link_id
\* is NaN form no group.
GroupKeys(rows, map) ==
    {<<map[rows[k].cell_id], rows[k].slot_idx>> :
        k \in {n \in 1..Len(rows) : rows[n].cell_id \in DOMAIN map}}

\* df_copy.groupby(['link_id', 'slot_idx'])['bits'].sum()
GroupBySum(rows, map) ==
    [key \in GroupKeys(rows, map) |-> GroupSum(rows, map, key[1], key[2])]

SetMax(S) == CHOOSE x \in S : \A y \in S : x >= y

RECURSIVE SetSum(_, _)
SetSum(S, f) ==
    IF S = {} THEN 0
    ELSE LET x == CHOOSE y \in S : TRUE IN f[x] + SetSum(S \ {x}, f)

\* peak_gbps of one link, in tenths of a Gbps: 0 when the link has no
\* group, else (max_bits / slot_duration) / gbps_scale
PeakGbps(lt, link) ==
    LET keys == {key \in DOMAIN lt : key[1] = link}
    IN  IF keys = {} THEN [num |-> 0, den |-> 1]
        ELSE [num |-> SetMax({lt[key] : key \in keys}),
              den |-> TENTH_GBPS_SLOT_BITS]

\* get_required_speed(gbps_val): first speed with gbps_val <= speed * 0.8
RECURSIVE ScanTopoSpeeds(_, _)
RECURSIVE ScanTopoSpeedsNoHeadroom(_, _)

\* Mutant of ScanTopoSpeeds: the first speed that is not below the peak,
\* without the headroom.
ScanTopoSpeedsNoHeadroom(k, gbps) ==
    IF k > Len(TOPO_LINK_SPEEDS) THEN TOPO_FALLBACK_SPEED
    ELSE IF gbps.num <= TOPO_LINK_SPEEDS[k] * gbps.den
         THEN TOPO_LINK_SPEEDS[k]
         ELSE ScanTopoSpeedsNoHeadroom(k + 1, gbps)

ScanTopoSpeeds(k, gbps) ==
    IF k > Len(TOPO_LINK_SPEEDS) THEN TOPO_FALLBACK_SPEED
    ELSE IF 10 * gbps.num <= 8 * TOPO_LINK_SPEEDS[k] * gbps.den
         THEN TOPO_LINK_SPEEDS[k]
         ELSE ScanTopoSpeeds(k + 1, gbps)

get_required_speed(gbps) == ScanTopoSpeeds(1, gbps)

\* if link_costs is None: link_costs = DEFAULT_LINK_COSTS
EffectiveCosts(lc) == IF lc = <<>> THEN DEFAULT_LINK_COSTS ELSE lc[1]

\* Mutant of MappingLinks: no link is listed when the table has no rows.
MappingLinksOfSamples(map) ==
    IF df.rows = <<>> THEN {} ELSE {map[c] : c \in DOMAIN map}

\* The distinct links of mapping.values()
MappingLinks(map) == {map[c] : c \in DOMAIN map}

\* link_details[link_id] = {'peak': .., 'speed': .., 'cost': ..}; the cost
\* is <<>> when link_costs[req_speed] raises KeyError.
LinkDetail(lt, link, lc) ==
    CHOOSE r \in
        {[peak |-> peak, speed |-> get_required_speed(peak),
          cost |-> IF get_required_speed(peak) \in DOMAIN EffectiveCosts(lc)
                   THEN <<EffectiveCosts(lc)[get_required_speed(peak)]>>
                   ELSE <<>>] : peak \in {PeakGbps(lt, link)}} : TRUE

\* Mutant of CostOutcome: the guard `if link_id not in link_details` is
\* dropped, so a link is charged once per cell mapped to it.
CostOutcomeChargesEveryCell(map, lt, details) ==
    IF \E link \in MappingLinks(map) : details[link].cost = <<>>
    THEN [raised |-> "KeyError_link_costs", link_traffic |-> EmptyDict,
          total_cost |-> 0, link_details |-> EmptyDict]
    ELSE [raised |-> "", link_traffic |-> lt,
          total_cost |->
              SetSum(DOMAIN map,
                     [c \in DOMAIN map |-> details[map[c]].cost[1]]),
          link_details |->
              [link \in MappingLinks(map) |->
                  [peak |-> details[link].peak,
                   speed |-> details[link].speed,
                   cost |-> details[link].cost[1]]]]

\* The values returned, or the exception, once the groupby result lt and
\* the details of every link of mapping.values() are known.
CostOutcome(map, lt, details) ==
    IF \E link \in MappingLinks(map) : details[link].cost = <<>>
    THEN [raised |-> "KeyError_link_costs", link_traffic |-> EmptyDict,
          total_cost |-> 0, link_details |-> EmptyDict]
    ELSE [raised |-> "", link_traffic |-> lt,
          total_cost |->
              SetSum(MappingLinks(map),
                     [link \in MappingLinks(map) |-> details[link].cost[1]]),
          link_details |->
              [link \in MappingLinks(map) |->
                  [peak |-> details[link].peak,
                   speed |-> details[link].speed,
                   cost |-> details[link].cost[1]]]]

\* calculate_topology_cost(df, mapping, link_costs=..): the groupby result,
\* total_cost and link_details, or the exception raised.  (The singleton
\* sets bind the groupby result and the details to values.)
calculate_topology_cost(d, map, lc) ==
    IF "slot_idx" \notin d.columns
    THEN [raised |-> "KeyError_slot_idx", link_traffic |-> EmptyDict,
          total_cost |-> 0, link_details |-> EmptyDict]
    ELSE CHOOSE r \in
             UNION {{CostOutcome(map, lt, details) :
                        details \in {[link \in MappingLinks(map) |->
                                         LinkDetail(lt, link, lc)]}} :
                    lt \in {GroupBySum(d.rows, map)}} : TRUE

\* ---- inputs drawn
CellIds == {1, 2, 3}
TimeSet == {1000, 3500, 7000}
BitsSet == {400000, 4000000}
RowSet ==
    [cell_id : CellIds, time : TimeSet, bits : BitsSet, slot_idx : {0}]

\* Tables as read from per-cell files: rows grouped by cell, by time within
\* a cell.
RowOrdered(r1, r2) ==
    \/ r1.cell_id < r2.cell_id
    \/ r1.cell_id = r2.cell_id /\ r1.time <= r2.time
RowsSet ==
    UNION {{rows \in [1..n -> RowSet] :
               \A k \in 1..(n - 1) : RowOrdered(rows[k], rows[k + 1])} :
           n \in 0..MaxRows}
LoadedColumns == {"time", "bits", "cell_id"}

\* Assignments of some of the cells to two links.
MappingSet ==
    UNION {[cells -> {LinkLabel(1), LinkLabel(2)}] : cells \in SUBSET CellIds}

\* Cost tables of the caller: none, the default one, one without the 1 Gbps
\* tier.
TopoCostTables ==
    {<<>>, <<DEFAULT_LINK_COSTS>>,
     <<Restrict(DEFAULT_LINK_COSTS, DOMAIN DEFAULT_LINK_COSTS \ {10})>>}

InitCost ==
    /\ IdleSolver /\ IdleSla /\ IdleOpt
    /\ required_gbps = 0 /\ peak_gbps = <<>> /\ speed = 0 /\ cost = 0
    /\ link_costs \in TopoCostTables
    /\ \E rows \in RowsSet : df = [columns |-> LoadedColumns, rows |-> rows]
    /\ mapping \in MappingSet
    /\ link_traffic = EmptyDict /\ total_cost = 0 /\ link_details = EmptyDict
    /\ link_series = EmptyDict
    /\ raised = ""
    /\ pc = "loaded"

\* Slot alignment of the loaded table (as in load_data and main).
AlignSlots ==
    /\ pc = "loaded"
    /\ df' = AssignSlotIdx(df)
    /\ pc' = "aligned"
    /\ UNCHANGED <<solverVars, tierVars, slaVars, costVars, optVars, raised>>

\* total_cost, link_details = calculate_topology_cost(df, mapping, link_costs)
CostCall ==
    /\ pc \in {"loaded", "aligned"}
    /\ LET r == calculate_topology_cost(df, mapping, link_costs)
       IN  /\ raised' = r.raised
           /\ link_traffic' = r.link_traffic
           /\ total_cost' = r.total_cost
           /\ link_details' = r.link_details
    /\ pc' = "costed"
    /\ UNCHANGED <<solverVars, tierVars, slaVars, optVars, df, mapping,
                   link_series>>

\* The slots of S in ascending order, as groupby sorts its keys.
RECURSIVE Ascending(_)
Ascending(S) ==
    IF S = {} THEN <<>>
    ELSE LET least == CHOOSE x \in S : \A y \in S : x <= y
         IN  <<least>> \o Ascending(S \ {least})

\* Every slot of the window 0..last slot of the table, in order.
WindowSlots(lt) ==
    IF DOMAIN lt = {} THEN <<>>
    ELSE [k \in 1..(SetMax({key[2] : key \in DOMAIN lt}) + 1) |-> k - 1]

\* Mutant of LinkSeries: the series has an entry for every slot of the
\* window, of 0 bits where the link has no group.
LinkSeriesZeroFilled(lt, link) ==
    [k \in 1..Len(WindowSlots(lt)) |->
        [slot_idx |-> WindowSlots(lt)[k],
         bits |-> IF <<link, WindowSlots(lt)[k]>> \in DOMAIN lt
                  THEN lt[<<link, WindowSlots(lt)[k]>>] ELSE 0]]

\* link_traffic[link_traffic['link_id'] == link_id]: the groups of the link
\* in the order of the groupby result.
LinkSeries(lt, link) ==
    LET slots == Ascending({key[2] : key \in {x \in DOMAIN lt : x[1] = link}})
    IN  [k \in 1..Len(slots) |->
            [slot_idx |-> slots[k], bits |-> lt[<<link, slots[k]>>]]]

\* link_traffic = df.groupby(['link_id', 'slot_idx'])['bits'].sum() and,
\* for link_id in link_traffic['link_id'].unique(), the series of the link.
BuildSeries ==
    /\ pc = "aligned"
    /\ \E lt \in {GroupBySum(df.rows, mapping)} :
           /\ link_traffic' = lt
           /\ link_series' = [link \in {key[1] : key \in DOMAIN lt} |->
                                  LinkSeries(lt, link)]
    /\ pc' = "series"
    /\ UNCHANGED <<solverVars, tierVars, slaVars, optVars, df, mapping,
                   total_cost, link_details, raised>>

NextCost == AlignSlots \/ CostCall \/ BuildSeries

SpecCost == InitCost /\ [][NextCost]_vars

\* ---- claims about the builder and the cost lookup
Costed == pc = "costed" /\ "slot_idx" \in df.columns

\* The rows that belong to one (link, slot) group, from the timestamps.
RowsOf(link, slot) ==
    {k \in 1..Len(df.rows) :
        /\ df.rows[k].cell_id \in DOMAIN mapping
        /\ mapping[df.rows[k].cell_id] = link
        /\ (df.rows[k].time - MinTime(df.rows)) \div SLOT_DURATION_SEC = slot}

BitsOfRow == [k \in 1..Len(df.rows) |-> df.rows[k].bits]

\* C10: the aggregated volume of a (link, slot) is the sum of the bits of
\* the samples of the sources mapped to that link whose slot index, taken
\* from the minimum timestamp of the whole table, is that slot; a slot with
\* no such sample has no entry; samples of unmapped sources are in no
\* group and raise nothing.
C10_SeriesIsPerLinkSlotSumOnCommonAxis ==
    (Costed /\ raised = "") =>
        /\ \A key \in DOMAIN link_traffic :
               /\ RowsOf(key[1], key[2]) # {}
               /\ link_traffic[key] = SetSum(RowsOf(key[1], key[2]), BitsOfRow)
        /\ \A k \in 1..Len(df.rows) :
               df.rows[k].cell_id \in DOMAIN mapping =>
                   \E key \in DOMAIN link_traffic : k \in RowsOf(key[1], key[2])

\* C10 witness: a sample of an unmapped source holds the minimum timestamp
\* of the table, and a mapped sample one slot later is aggregated in slot 1
\* of its link.
C10_Witness ==
    /\ Costed /\ raised = ""
    /\ \E k, n \in 1..Len(df.rows) :
           /\ df.rows[k].cell_id \notin DOMAIN mapping
           /\ df.rows[k].time = MinTime(df.rows)
           /\ df.rows[n].cell_id \in DOMAIN mapping
           /\ df.rows[n].time - df.rows[k].time >= SLOT_DURATION_SEC
           /\ <<mapping[df.rows[n].cell_id], 1>> \in DOMAIN link_traffic
           /\ link_traffic[<<mapping[df.rows[n].cell_id], 1>>] = df.rows[n].bits

\* C6 (as stated): calculate_topology_cost never raises on the cost lookup,
\* whatever cost table the caller passes.
C6_TopologyCostLookupNeverRaises ==
    Costed => raised # "KeyError_link_costs"

----------------------------------------------------------------------------
(* optimize_topology(df, num_links, iterations, link_costs)                *)

\* Python's a // b
FloorDiv(a, b) == IF b > 0 THEN a \div b ELSE (0 - a) \div (0 - b)

\* df['cell_id'].unique().tolist(): the cells in order of first appearance
RECURSIVE Unique(_, _)
Unique(rows, seen) ==
    IF rows = <<>> THEN <<>>
    ELSE IF Head(rows).cell_id \in seen THEN Unique(Tail(rows), seen)
         ELSE <<Head(rows).cell_id>>
              \o Unique(Tail(rows), seen \cup {Head(rows).cell_id})

\* The outcomes of random.shuffle(unique_cells)
Shuffles(cells) ==
    {p \in [1..Len(cells) -> SeqRange(cells)] : SeqRange(p) = SeqRange(cells)}

\* Mutant of ChunkSize: the division rounds down.
ChunkSizeFloor(n, links) == FloorDiv(n, links)

\* chunk_size = -(-len(unique_cells) // num_links)
ChunkSize(n, links) == 0 - FloorDiv(0 - n, links)

\* link_num of the cell at (0-based) position idx
LinkNum(idx, chunk_size, links) ==
    LET link_num == FloorDiv(idx, chunk_size) + 1
    IN  IF link_num > links THEN links ELSE link_num

\* current_mapping of one iteration
CurrentMapping(cells, chunk_size, links) ==
    [cell \in SeqRange(cells) |->
        LinkLabel(LinkNum((CHOOSE k \in 1..Len(cells) : cells[k] = cell) - 1,
                          chunk_size, links))]

\* The division by zero of one iteration: in the ceiling division, or in
\* idx // chunk_size when there is a cell to place.
DividesByZero(n, links) ==
    links = 0 \/ (n > 0 /\ ChunkSize(n, links) = 0)

\* Mutant of Improves: a candidate of equal cost replaces the best one.
ImprovesOrTies(c, best) == best = INF \/ c <= best[1]

\* if cost < best_cost
Improves(c, best) == best = INF \/ c < best[1]

\* Tables of the optimizer: the first n cells of TopoCellIds, one sample
\* each, of the same volume, in the first or in the second slot.
TopoCellIds == {1, 2, 3, 4}
TopoTimeSet == {1000, 7000}
TopoRowsSet ==
    UNION {{[k \in 1..n |-> [cell_id |-> k, time |-> times[k], bits |-> b,
                             slot_idx |-> 0]] :
               times \in [1..n -> TopoTimeSet], b \in BitsSet} :
           n \in 0..Cardinality(TopoCellIds)}
NumLinksSet == (0 - 2)..MaxLinks
IterationsSet == 0..MaxIter
OptCostTables ==
    {<<>>, <<Restrict(DEFAULT_LINK_COSTS, DOMAIN DEFAULT_LINK_COSTS \ {10})>>}

InitTopo ==
    /\ IdleSolver /\ IdleSla /\ IdleCost /\ IdleOpt
    /\ required_gbps = 0 /\ peak_gbps = <<>> /\ speed = 0 /\ cost = 0
    /\ link_costs \in OptCostTables
    /\ \E rows \in TopoRowsSet :
           \/ df = [columns |-> LoadedColumns, rows |-> rows]
           \/ df = AssignSlotIdx([columns |-> LoadedColumns, rows |-> rows])
    /\ raised = ""
    /\ pc = "opt_call"

\* The call and the statements before the loop.
OptEnter ==
    /\ pc = "opt_call"
    /\ \E links \in NumLinksSet, its \in IterationsSet :
           /\ num_links' = links
           /\ iterations' = its
    /\ unique_cells' = Unique(df.rows, {})
    /\ best_mapping' = EmptyDict
    /\ best_cost' = INF
    /\ best_details' = EmptyDict
    /\ df' = IF "slot_idx" \in df.columns THEN df ELSE AssignSlotIdx(df)
    /\ loop_i' = 0
    /\ pc' = "opt_loop"
    /\ UNCHANGED <<solverVars, tierVars, slaVars, costVars, raised>>

\* One pass of "for i in range(iterations)".
OptIterate ==
    /\ pc = "opt_loop"
    /\ loop_i < iterations
    /\ \E shuffled \in Shuffles(unique_cells) :
           /\ unique_cells' = shuffled
           /\ IF DividesByZero(Len(shuffled), num_links)
              THEN /\ raised' = "ZeroDivisionError"
                   /\ pc' = "opt_done"
                   /\ UNCHANGED <<best_mapping, best_cost, best_details,
                                  loop_i, costVars>>
              ELSE LET current_mapping ==
                           CurrentMapping(shuffled,
                               ChunkSize(Len(shuffled), num_links), num_links)
                   IN  \E r \in {calculate_topology_cost(df, current_mapping,
                                                          link_costs)} :
                       /\ mapping' = current_mapping
                       /\ UNCHANGED link_series
                       /\ link_traffic' = r.link_traffic
                       /\ total_cost' = r.total_cost
                       /\ link_details' = r.link_details
                       /\ IF r.raised # ""
                          THEN /\ raised' = r.raised
                               /\ pc' = "opt_done"
                               /\ UNCHANGED <<best_mapping, best_cost,
                                              best_details, loop_i>>
                          ELSE /\ IF Improves(r.total_cost, best_cost)
                                  THEN /\ best_cost' = <<r.total_cost>>
                                       /\ best_mapping' = current_mapping
                                       /\ best_details' = r.link_details
                                  ELSE UNCHANGED <<best_mapping, best_cost,
                                                   best_details>>
                               /\ loop_i' = loop_i + 1
                               /\ UNCHANGED <<raised, pc>>
    /\ UNCHANGED <<solverVars, tierVars, slaVars, df, num_links, iterations>>

\* Mutant of OptReturn: the loop also stops as soon as a best candidate
\* exists.
OptReturnOnConvergence ==
    /\ pc = "opt_loop"
    /\ \/ loop_i = iterations
       \/ loop_i >= 1 /\ best_cost # INF
    /\ pc' = "opt_done"
    /\ UNCHANGED <<solverVars, tierVars, slaVars, topoVars>>

\* return best_mapping, best_cost, best_details
OptReturn ==
    /\ pc = "opt_loop"
    /\ loop_i = iterations
    /\ pc' = "opt_done"
    /\ UNCHANGED <<solverVars, tierVars, slaVars, topoVars>>

NextTopo == OptEnter \/ OptIterate \/ OptReturn

SpecTopo == InitTopo /\ [][NextTopo]_vars

\* ---- claims about the optimizer
\* C7 (as stated): with iterations = 0 the optimizer returns, without
\* raising, an assignment of every cell of the table to a link and a finite
\* total cost.
C7_ZeroIterationsReturnsValidAssignment ==
    (pc = "opt_done" /\ iterations = 0) =>
        /\ raised = ""
        /\ DOMAIN best_mapping = {df.rows[k].cell_id : k \in 1..Len(df.rows)}
        /\ best_cost # INF

\* A candidate assignment has been built and is held in mapping.
CandidateBuilt ==
    /\ pc \in {"opt_loop", "opt_done"}
    /\ loop_i >= 1 \/ raised = "KeyError_link_costs"

CeilDiv(n, k) == (n + k - 1) \div k

CellsOf(map, link) == {c \in DOMAIN map : map[c] = link}

\* C11 (as stated): a candidate built with num_links >= 1 maps every cell
\* to one of Link_1..Link_num_links, in contiguous chunks of the shuffled
\* list, no link gets more than ceil(N / num_links) cells, and every one of
\* the num_links links gets a cell when N >= num_links.
C11_CandidateSplitsIntoNumLinksChunks ==
    (CandidateBuilt /\ num_links >= 1) =>
        LET n == Len(unique_cells)
        IN  /\ DOMAIN mapping = SeqRange(unique_cells)
            /\ \A c \in DOMAIN mapping :
                   \E k \in 1..num_links : mapping[c] = LinkLabel(k)
            /\ \A a, b \in 1..n :
                   a <= b => mapping[unique_cells[a]][2]
                                 <= mapping[unique_cells[b]][2]
            /\ \A k \in 1..num_links :
                   Cardinality(CellsOf(mapping, LinkLabel(k)))
                       <= CeilDiv(n, num_links)
            /\ n >= num_links =>
                   \A k \in 1..num_links : CellsOf(mapping, LinkLabel(k)) # {}

\* One pass of the loop has completed without raising.
IterationCompleted == pc = "opt_loop" /\ loop_i' = loop_i + 1

\* C12: best_cost is infinite before the first candidate; every completed
\* iteration leaves best_cost at the smaller of its old value and the cost
\* of the candidate just evaluated (so it is the minimum of all costs
\* evaluated so far and never increases), takes the candidate as the best
\* one on a strict improvement, and keeps the earlier best one otherwise,
\* a tie included.
C12_BestIsMinimumSoFarTiesKeepEarlier ==
    /\ [](pc = "opt_loop" /\ loop_i = 0 => best_cost = INF)
    /\ [][IterationCompleted =>
            IF best_cost = INF \/ total_cost' < best_cost[1]
            THEN /\ best_cost' = <<total_cost'>>
                 /\ best_mapping' = mapping'
                 /\ best_details' = link_details'
            ELSE /\ best_cost' = best_cost
                 /\ best_mapping' = best_mapping
                 /\ best_details' = best_details]_vars

\* C12 witness: the second candidate costs as much as the first one, is a
\* different assignment, and the first one is still the best.
C12_Witness ==
    /\ pc = "opt_loop" /\ loop_i = 2
    /\ best_cost = <<total_cost>>
    /\ mapping # best_mapping

\* C13 (as stated): with num_links <= 0 the optimizer never returns an
\* assignment of cells to links; the call ends in an error.
C13_NonPositiveLinksNeverAccepted ==
    (pc = "opt_done" /\ num_links <= 0 /\ best_mapping # EmptyDict) =>
        raised # ""

\* The optimizer has ended a run of at least one iteration in which more
\* links were requested than the table has cells.
MoreLinksThanCells ==
    /\ pc = "opt_done" /\ iterations >= 1
    /\ num_links >= 1 /\ Len(unique_cells) < num_links

C15_InputsNeverMutated ==
    [][df' = df /\ link_costs' = link_costs]_vars

----------------------------------------------------------------------------
(* Further claims about the solver, checked under SpecCalls *)

----------------------------------------------------------------------------
(* Further claims about the builder and the cost function (SpecCost) *)

EmptyCosted == Costed /\ df.rows = <<>>

\* The links named by the assignment given to the cost function.
AssignedLinks == {mapping[c] : c \in DOMAIN mapping}

----------------------------------------------------------------------------
(* Runs of the solver and of the optimizer, each carried to its end: a     *)
(* call is synchronous, so a step that is enabled is taken.                *)

\* The runs followed to their end: the series of idle and full slots with
\* the tightest and the next loss target, and the tables of at most three
\* cells whose samples all fall in one slot.
RunSeriesSet ==
    {s \in SeriesSet : \A k \in 1..Len(s) : s[k] \in {0, MaxGbps}}
RunLossSet == {0, 20}
RunRowsSet ==
    {rows \in TopoRowsSet :
        Len(rows) <= 3 /\ \A k \in 1..Len(rows) : rows[k].time = 1000}

InitRuns ==
    \/ \E s \in RunSeriesSet, pct \in RunLossSet :
          \/ SolverStart("app", s, BufferTimeSec(0), pct)
          \/ SolverStart("lce", s, BUFFER_TIME_SEC, pct)
    \/ /\ InitTopo
       /\ df.rows \in RunRowsSet

RunStep == AppIterate \/ LceIterate \/ SolverReturn \/ NextTopo

NextRuns == NextSolver \/ NextTopo

SpecRuns == InitRuns /\ [][NextRuns]_vars /\ WF_vars(RunStep)

\* C18: a solver call returns after exactly SEARCH_ITERS iterations of the
\* binary search, the early exit of the slot loop notwithstanding; an
\* optimizer call that returns has evaluated exactly `iterations`
\* candidates; every call of either comes to its end.
C18_FixedIterationCounts ==
    /\ [](pc = "done" => iter = SEARCH_ITERS)
    /\ [](pc = "search" => iter <= SEARCH_ITERS)
    /\ []((pc = "opt_done" /\ raised = "") => loop_i = iterations)
    /\ [](pc = "opt_loop" => loop_i <= iterations)
    /\ (pc = "search") ~> (pc = "done")
    /\ (pc \in {"opt_call", "opt_loop"}) ~> (pc = "opt_done")

\* C18 witness: a finished run of find_required_capacity_with_buffer whose
\* last rejected capacity made the slot loop exit before the slots that
\* would have added to the loss.
C18_Witness ==
    /\ pc = "done" /\ impl = "lce" /\ iter = SEARCH_ITERS
    /\ low > NpMean(traffic_gbps)
    /\ SimLossBreak(traffic_gbps, buffer_time, SLOT_DURATION_SEC, low,
                    MaxAllowedLoss(Len(traffic_gbps), max_loss_pct))
           < SimLoss(traffic_gbps, buffer_time, SLOT_DURATION_SEC, low)

\* The slots in which a sample of a cell mapped to the link falls.
ObservedSlots(link) ==
    {(df.rows[k].time - MinTime(df.rows)) \div SLOT_DURATION_SEC :
        k \in {n \in 1..Len(df.rows) :
                  /\ df.rows[n].cell_id \in DOMAIN mapping
                  /\ mapping[df.rows[n].cell_id] = link}}

\* C19: a series exists for exactly the links that have a sample; it has one
\* entry for each slot in which the link has a sample and for no other slot,
\* in strictly ascending slot order, each holding the sum of that slot, so
\* no zero entry stands for a slot without a sample.
C19_SeriesHoldsObservedSlotsOnly ==
    pc = "series" =>
        /\ DOMAIN link_series = {link \in AssignedLinks : ObservedSlots(link) # {}}
        /\ \A link \in DOMAIN link_series :
               LET series == link_series[link]
               IN  /\ {series[k].slot_idx : k \in 1..Len(series)}
                          = ObservedSlots(link)
                   /\ Len(series) = Cardinality(ObservedSlots(link))
                   /\ \A k \in 1..(Len(series) - 1) :
                          series[k].slot_idx < series[k + 1].slot_idx
                   /\ \A k \in 1..Len(series) :
                          /\ series[k].bits
                                 = SetSum(RowsOf(link, series[k].slot_idx),
                                          BitsOfRow)
                          /\ series[k].bits > 0

\* C19 witness: the table spans two slots and a link has a sample in the
\* second slot only: its series has the one entry of slot 1.
C19_Witness ==
    /\ pc = "series"
    /\ \E link \in DOMAIN link_series :
           /\ Len(link_series[link]) = 1
           /\ link_series[link][1].slot_idx = 1
           /\ \E k \in 1..Len(df.rows) : df.rows[k].slot_idx = 0

\* The largest per-slot volume of a link, in bits; 0 for a link without
\* samples.
PeakBitsOf(link) ==
    IF ObservedSlots(link) = {} THEN 0
    ELSE SetMax({SetSum(RowsOf(link, slot), BitsOfRow) :
                    slot \in ObservedSlots(link)})

\* The smallest speed (tenths of a Gbps) whose 80% carries the volume in one
\* slot: 0.8 * (speed / 10) Gbps over 500 microseconds is 40000 * speed bits.
TierOfBits(bits) ==
    LET fitting == {s \in SeqRange(TOPO_LINK_SPEEDS) : bits <= 40000 * s}
    IN  IF fitting = {} THEN 1000
        ELSE CHOOSE s \in fitting : \A u \in fitting : s <= u

\* C20: the cost of an assignment is the sum, over its distinct links, of the
\* cost of the tier chosen by the 80% rule from the link's peak per-slot
\* volume, a link without samples being costed at peak 0; the details list
\* that peak, tier and cost for every link.
C20_CostIsSumOfTierCostsOverLinks ==
    (Costed /\ raised = "") =>
        LET costs == EffectiveCosts(link_costs)
        IN  /\ DOMAIN link_details = AssignedLinks
            /\ \A link \in AssignedLinks :
                   /\ link_details[link].peak.num = PeakBitsOf(link)
                   /\ link_details[link].speed = TierOfBits(PeakBitsOf(link))
                   /\ link_details[link].cost = costs[TierOfBits(PeakBitsOf(link))]
            /\ total_cost =
                   SetSum(AssignedLinks,
                          [link \in AssignedLinks |->
                              costs[TierOfBits(PeakBitsOf(link))]])

\* C20 witness: Link_1 has two cells and two samples in the same slot
\* (1.6 Gbps, tier 10), Link_2 has a cell without samples (tier 1).
C20_Witness ==
    /\ Costed /\ raised = "" /\ link_costs = <<>>
    /\ AssignedLinks = {LinkLabel(1), LinkLabel(2)}
    /\ Cardinality(CellsOf(mapping, LinkLabel(1))) = 2
    /\ PeakBitsOf(LinkLabel(1)) = 800000
    /\ PeakBitsOf(LinkLabel(2)) = 0
    /\ total_cost = 170000 + 45000

----------------------------------------------------------------------------
(* Claims about the search and the queue, checked under SpecSolver *)

Running == pc \in {"search", "done"}

ConstantSeries == \A k \in 1..Len(traffic_gbps) : traffic_gbps[k] = traffic_gbps[1]

ProbeCapacities ==
    {(k * Den(traffic_gbps)) \div 2 : k \in 0..(2 * MaxGbps)}
        \cup {low, high, Midpoint(SearchState)}

\* Loss of the simulation never grows with the capacity, on the inputs of
\* the current run.
LossMonotoneInCapacity ==
    Running =>
        \A c1 \in ProbeCapacities : \A c2 \in ProbeCapacities :
            c1 <= c2 => ReSimulate(c2) <= ReSimulate(c1)

\* C23: feasibility is monotone in the capacity and, on a non-constant
\* series, every capacity from the mean up to one search step below the
\* returned value is rejected: the returned value is the minimum feasible
\* capacity within the search resolution.
C23_ReturnedIsMinimumFeasible ==
    /\ LossMonotoneInCapacity
    /\ (Done /\ NpMean(traffic_gbps) < NpMax(traffic_gbps)) =>
          /\ high - low = (NpMax(traffic_gbps) - NpMean(traffic_gbps))
                              \div Pow2(SEARCH_ITERS)
          /\ ReSimulate(low) > Allowed
          /\ ReSimulate(NpMean(traffic_gbps)) > Allowed

\* The queue of the simulation the search is about to run (at the current
\* midpoint) after its first n slots.
QueueAfter(n) ==
    LET c == Midpoint(SearchState)
        tb == TrafficBits(traffic_gbps, buffer_time, SLOT_DURATION_SEC)
    IN  RunQueue([buf |-> 0, loss |-> 0], SubSeq(tb, 1, n), 1,
                 CapacityBitsPerSlot(c, buffer_time, SLOT_DURATION_SEC),
                 MaxBufferBits(c, buffer_time, SLOT_DURATION_SEC))

\* Level left in slot n after the link has drained it, before the tail-drop.
DrainedIn(n) ==
    LET c == Midpoint(SearchState)
        tb == TrafficBits(traffic_gbps, buffer_time, SLOT_DURATION_SEC)
        cap == CapacityBitsPerSlot(c, buffer_time, SLOT_DURATION_SEC)
        added == QueueAfter(n - 1).buf + tb[n]
    IN  IF added > cap THEN added - cap ELSE 0

MidpointMaxBuffer ==
    MaxBufferBits(Midpoint(SearchState), buffer_time, SLOT_DURATION_SEC)

\* C24: in the simulation at every midpoint, after each slot the buffer
\* level is between 0 and max_buffer_bits, the loss count has grown by one
\* exactly when the drained level exceeded max_buffer_bits and by nothing
\* otherwise, and it never exceeds the number of slots processed.
C24_QueueInvariant ==
    pc = "search" =>
        \A n \in 1..Len(traffic_gbps) :
            LET q == QueueAfter(n)
                before == QueueAfter(n - 1)
            IN  /\ 0 <= q.buf /\ q.buf <= MidpointMaxBuffer
                /\ q.loss = before.loss
                     + (IF DrainedIn(n) > MidpointMaxBuffer THEN 1 ELSE 0)
                /\ q.loss <= n

\* C24 witness: a simulation in which one slot overflows the buffer and
\* another leaves it partly filled.
C24_Witness ==
    /\ pc = "search" /\ iter >= 1 /\ iter < SEARCH_ITERS
    /\ MidpointMaxBuffer > 0
    /\ \E n \in 1..Len(traffic_gbps) : DrainedIn(n) > MidpointMaxBuffer
    /\ \E n \in 1..Len(traffic_gbps) :
          /\ 0 < QueueAfter(n).buf
          /\ QueueAfter(n).buf < MidpointMaxBuffer

\* C25: between iterations of the search low <= high and best_c = high;
\* after k iterations high - low is (max - mean) / 2^k; the value returned
\* is the final high.
C25_SearchLoopInvariant ==
    Running =>
        /\ low <= high
        /\ best_c = high
        /\ (high - low) * Pow2(iter)
             = NpMax(traffic_gbps) - NpMean(traffic_gbps)
        /\ (Done /\ returned # <<>>) => returned[Len(returned)] = high

\* C25 witness: a finished search that moved both ends of the interval.
C25_Witness ==
    /\ Done /\ iter = SEARCH_ITERS /\ returned = <<high>>
    /\ NpMean(traffic_gbps) < low /\ high < NpMax(traffic_gbps)

\* Loss the slot loop of find_required_capacity_with_buffer counts at
\* capacity c on the inputs of the current run.
ReSimulateBreak(c) ==
    SimLossBreak(traffic_gbps, buffer_time, SLOT_DURATION_SEC, c, Allowed)

\* C26: on the same series, buffer duration, slot duration and loss target
\* the two solvers take the same decision at every midpoint, move the
\* search to the same state, and return the same capacity.
C26_SolversAgree ==
    /\ (pc = "search" /\ iter < SEARCH_ITERS) =>
          LET c == Midpoint(SearchState)
          IN  /\ (ReSimulateBreak(c) <= Allowed) <=> (ReSimulate(c) <= Allowed)
              /\ LceIteration(SearchState, traffic_gbps, buffer_time,
                              SLOT_DURATION_SEC, max_loss_pct)
                   = AppIteration(SearchState, traffic_gbps, buffer_time,
                                  max_loss_pct)
    /\ (Done /\ impl = "lce") =>
          best_c = AppSearch(SearchInit(traffic_gbps), SEARCH_ITERS,
                             traffic_gbps, buffer_time, max_loss_pct).best_c

\* C26 witness: a finished run of find_required_capacity_with_buffer whose
\* last rejected midpoint was rejected after an early break (the full
\* simulation loses more slots there than the broken one counted).
C26_Witness ==
    /\ Done /\ impl = "lce" /\ NpMean(traffic_gbps) < low
    /\ ReSimulateBreak(low) < ReSimulate(low)
    /\ best_c < NpMax(traffic_gbps)
    /\ best_c = AppSearch(SearchInit(traffic_gbps), SEARCH_ITERS,
                          traffic_gbps, buffer_time, max_loss_pct).best_c

\* A capacity numerator of the solver as the rational the scorer takes.
AsGbps(c) == [num |-> c, den |-> Den(traffic_gbps)]

\* sla_score = calculate_sla_score(adjusted_gbps, optimized), at capacity c
SlaAt(c) == calculate_sla_score(traffic_gbps, AsGbps(c))

\* 100 * (1 - floor(len(S) * L / 100) / len(S)), over the denominator len(S)
SlaBound == [num |-> 100 * (Len(traffic_gbps) - Allowed),
             den |-> Len(traffic_gbps)]

\* C27: with buffer size 0 the slots the queue simulation loses at a
\* capacity are exactly the slots whose Gbps exceeds it, so the SLA score
\* at the returned capacity is at least 100 * (1 - floor(len * L / 100) / len).
C27_ZeroBufferLossIsExceededSlots ==
    (Running /\ buffer_time = 0) =>
        /\ \A c \in ProbeCapacities :
              ReSimulate(c) = Exceeded(traffic_gbps, AsGbps(c))
        /\ Done => SlaAt(best_c).num >= SlaBound.num

\* C27 witness: a finished run with a positive buffer whose SLA score is
\* below the bound: at the capacity it returned the simulation without
\* buffer loses the slots the scorer counts, more than the allowance, while
\* the run without buffer on the same series meets the bound.
C27_Witness ==
    /\ Done /\ impl = "app" /\ buffer_time > 0
    /\ SlaAt(best_c).num < SlaBound.num
    /\ SimLoss(traffic_gbps, 0, SLOT_DURATION_SEC, best_c)
          = Exceeded(traffic_gbps, AsGbps(best_c))
    /\ Exceeded(traffic_gbps, AsGbps(best_c)) > Allowed
    /\ \E r0 \in {AppSearch(SearchInit(traffic_gbps), SEARCH_ITERS,
                            traffic_gbps, 0, max_loss_pct).best_c} :
          /\ best_c < r0
          /\ SlaAt(r0).num >= SlaBound.num

----------------------------------------------------------------------------
(* Per-link loops of main: the recommendations tab and the link-by-link   *)
(* summary of the network tab.  Both run in main's scope, one after the   *)
(* other, and share its local variable peak.                              *)

\* A solver result, a numerator over Den(s), in tenths of a Gbps rounded up.
\* Every 80% threshold of the tier scan is a whole number of tenths, so the
\* scan decides the same on the rounded value as on the exact one.
TenthsUp(c, s) == (10 * c + Den(s) - 1) \div Den(s)

\* Inputs: the gbps values of a link (two slots), the sidebar settings.
TabSeriesSet == SeriesOfLen(2)
TabBufferSet == {0, 5}
TabLossSet == {0, 60}

\* State on entry of the recommendations tab: the comparison loop before it
\* has left the peak of the last link in peak.
InitTabs ==
    /\ IdleSolver /\ IdleTier /\ IdleTopo
    /\ capacity_gbps = NoRational /\ compliance = NoRational
    /\ \E n \in 1..MaxTabLinks :
          /\ main_links = [i \in 1..n |-> i]
          /\ link_gbps \in [1..n -> TabSeriesSet]
    /\ main_buffer_symbols \in TabBufferSet
    /\ main_max_loss \in TabLossSet
    /\ main_peak = SeqMax(link_gbps[main_links[Len(main_links)]])
    /\ report_data = <<>> /\ summary_data = <<>>
    /\ pc = "tab3"

\* One iteration of `for i, link in enumerate(links)` of the
\* recommendations tab: peak is assigned before it is used.
Tab3Link ==
    /\ pc = "tab3"
    /\ LET link == main_links[Len(report_data) + 1]
           data == link_gbps[link]
           pk == SeqMax(data)
       IN  \E opt \in {calculate_capacity_with_buffer(
                           data, main_buffer_symbols, main_max_loss)} :
             /\ main_peak' = pk
             /\ report_data' = Append(report_data,
                  [link_name |-> link, peak |-> pk,
                   optimized |-> [num |-> opt, den |-> Den(data)],
                   recommended_speed |->
                       recommend_link_speed(TenthsUp(opt, data),
                                            <<10 * pk>>)])
    /\ pc' = IF Len(report_data) + 1 = Len(main_links) THEN "tab4" ELSE "tab3"
    /\ UNCHANGED <<solverVars, tierVars, topoVars, capacity_gbps, compliance,
                   main_links, link_gbps, main_buffer_symbols, main_max_loss,
                   summary_data>>

\* One iteration of `for link in links` of the link-by-link summary:
\* recommend_link_speed is called with peak before peak = np.max(data).
Tab4Link ==
    /\ pc = "tab4"
    /\ LET link == main_links[Len(summary_data) + 1]
           data == link_gbps[link]
       IN  \E opt_capacity \in {calculate_capacity_with_buffer(
                                    data, main_buffer_symbols, main_max_loss)} :
             \E rec_speed \in {recommend_link_speed(
                                   TenthsUp(opt_capacity, data),
                                   <<10 * main_peak>>)} :
               /\ main_peak' = SeqMax(data)
               /\ summary_data' = Append(summary_data,
                    [Link |-> link, Peak |-> SeqMax(data),
                     Optimized |-> [num |-> opt_capacity, den |-> Den(data)],
                     Recommendation |-> <<rec_speed, "G">>])
    /\ pc' = IF Len(summary_data) + 1 = Len(main_links)
             THEN "tabs_done" ELSE "tab4"
    /\ UNCHANGED <<solverVars, tierVars, topoVars, capacity_gbps, compliance,
                   main_links, link_gbps, main_buffer_symbols, main_max_loss,
                   report_data>>

NextTabs == Tab3Link \/ Tab4Link

SpecTabs == InitTabs /\ [][NextTabs]_vars

\* C28: in the link-by-link summary the tier reported for a link is
\* recommend_link_speed(optimized capacity of the link, peak of that same
\* link), and so equals the tier the recommendations loop reported for it.
C28_SummaryTierFromOwnPeak ==
    \A k \in 1..Len(summary_data) :
        LET row == summary_data[k]
            data == link_gbps[row.Link]
        IN  /\ row.Recommendation
                 = <<recommend_link_speed(TenthsUp(row.Optimized.num, data),
                                          <<10 * SeqMax(data)>>), "G">>
            /\ row.Recommendation
                 = <<report_data[k].recommended_speed, "G">>

----------------------------------------------------------------------------
(* Further claims about the optimizer, checked under SpecTopo *)

\* optimize_topology has returned normally from a call with at least one
\* iteration, one link and one source.
ReturnedTriple ==
    /\ pc = "opt_done" /\ raised = ""
    /\ iterations >= 1 /\ num_links >= 1 /\ df.rows # <<>>

SourcesOf(d) == {d.rows[k].cell_id : k \in 1..Len(d.rows)}

\* C29: the triple returned by optimize_topology is self-consistent:
\* best_mapping maps exactly the distinct sources of the table, each to one
\* link; best_cost is what calculate_topology_cost gives for best_mapping
\* and is the sum of the costs in best_details; best_details has exactly
\* the links best_mapping uses; shuffles made after the best candidate was
\* recorded have not changed it.
C29_ReturnedTripleConsistent ==
    ReturnedTriple =>
        \E r \in {calculate_topology_cost(df, best_mapping, link_costs)} :
            /\ DOMAIN best_mapping = SourcesOf(df)
            /\ \A c \in DOMAIN best_mapping :
                   \E n \in 1..num_links : best_mapping[c] = LinkLabel(n)
            /\ r.raised = ""
            /\ best_cost = <<r.total_cost>>
            /\ best_details = r.link_details
            /\ DOMAIN best_details
                 = {best_mapping[c] : c \in DOMAIN best_mapping}
            /\ best_cost[1]
                 = SetSum(DOMAIN best_details,
                          [link \in DOMAIN best_details |->
                              best_details[link].cost])

\* C29 witness: a returned triple whose best candidate was the first of two;
\* the second shuffle produced another mapping, which was not taken, and
\* one link of the best mapping carries two sources.
C29_Witness ==
    /\ ReturnedTriple /\ loop_i = 2
    /\ mapping # best_mapping
    /\ \E c1 \in DOMAIN best_mapping : \E c2 \in DOMAIN best_mapping :
          c1 # c2 /\ best_mapping[c1] = best_mapping[c2]
    /\ Cardinality(DOMAIN best_details) >= 2

----------------------------------------------------------------------------
(* Monotonicity of the tier recommenders, checked under SpecTier *)

\* peak1 <= peak2, an omitted peak counting as the least.
PeakLeq(p1, p2) == p1 = <<>> \/ (p2 # <<>> /\ p1[1] <= p2[1])

\* A required capacity in tenths of a Gbps as the rational get_required_speed
\* takes.
TenthsAsGbps(r) == [num |-> r, den |-> 10]

\* C30: the tier is monotone in the required capacity and in the peak: the
\* tier just returned for (required_gbps, peak_gbps) is at most the tier of
\* every pair that is at least as large in both, and at least the tier
\* returned without a peak; get_required_speed is monotone as well.
C30_TierMonotone ==
    pc = "lookup" =>
        /\ \A r2 \in RequiredSet : \A p2 \in PeakSet :
              (required_gbps <= r2 /\ PeakLeq(peak_gbps, p2))
                  => speed <= recommend_link_speed(r2, p2)
        /\ recommend_link_speed(required_gbps, <<>>) <= speed
        /\ \A r2 \in RequiredSet :
              required_gbps <= r2
                  => get_required_speed(TenthsAsGbps(required_gbps))
                        <= get_required_speed(TenthsAsGbps(r2))

\* C30 witness: a call in which the peak raised the tier above the one the
\* required capacity alone gets, below the largest tier.
C30_Witness ==
    /\ pc = "lookup" /\ peak_gbps # <<>>
    /\ recommend_link_speed(required_gbps, <<>>) < speed
    /\ speed < FALLBACK_SPEED
    /\ required_gbps > 0

=============================================================================
